---- MODULE Spec2Model ----
(***************************************************************************)
(* Model of package loggerext (logger.go): the request-body capture, the   *)
(* response-writer mirror, the buffer pool, Collect and Release, and the    *)
(* path gate Enabled.                                                       *)
(*                                                                          *)
(* Strings the code inspects (content types, header values, URL paths) are  *)
(* sequences of tokens, so that equality, splitting at ';' and suffix tests *)
(* are computed as the code computes them.  Bodies are sequences of bytes.  *)
(*                                                                          *)
(* Spec      one request after another, every way a handler may write its   *)
(*           response; small request bodies.                                *)
(* SpecCollect  one request, every configuration Collect may read, every    *)
(*           allow-list; Collect may run repeatedly.                        *)
(* SpecBody  one request after another, every request body and every way a  *)
(*           handler may read it; no response bytes.                        *)
(* SpecPool  NumReqs requests in flight at once over the shared pool.       *)
(* SpecPaths the path gate.                                                 *)
(***************************************************************************)
EXTENDS Integers, Sequences, FiniteSets, TLC

\* ------------------------------------------------------------------ bounds
NumReqs == 2          \* requests in flight at once (SpecPool)
MaxBody == 2          \* longest request body
MaxResp == 2          \* most response bytes a handler offers to Write
SmallMaxLen == 1      \* a configured log.bodymaxlen below MaxBody/MaxResp
MaxPaths == 4         \* most AppendIgnorePath registrations

\* ------------------------------------------------------- program constants
DefaultBodyMaxLen == 2048

Reqs == 1..NumReqs
MainReqs == {r \in Reqs : \A q \in Reqs : r <= q}
BufIds == 1..(2 * NumReqs)
Byte == {"a", "b"}

RECURSIVE SeqsUpTo(_, _)
SeqsUpTo(S, n) ==
  IF n = 0 THEN {<<>>}
  ELSE LET shorter == SeqsUpTo(S, n - 1)
       IN  shorter \cup {Append(s, x) : s \in {t \in shorter : Len(t) = n - 1}, x \in S}

Min(a, b) == IF a <= b THEN a ELSE b

\* ------------------------------------------------------------ content types
JSON == <<"application", "/", "json">>
FORM == <<"application", "/", "x-www-form-urlencoded">>
XML == <<"application", "/", "xml">>
PLAIN == <<"text", "/", "plain">>
TextAny == <<"text", "/", "*">>
AnyXml == <<"*", "/", "xml">>
MimeTypes == {JSON, FORM, XML, PLAIN}

DefaultBodyTypes == <<JSON, FORM>>
TestBodyTypes == <<TextAny, JSON, AnyXml>>
BodyTypeLists == {DefaultBodyTypes, TestBodyTypes}
BodyMaxLens == {DefaultBodyMaxLen, 0, -1, SmallMaxLen}

\* What the options of group "log" may return when polled.  The values live in
\* the configuration provider and may be reloaded between any two steps, so
\* every Get() is an input of the step that polls it.
Configs ==
  [query : BOOLEAN, reqheaders : BOOLEAN, respheaders : BOOLEAN,
   bodymaxlen : BodyMaxLens, bodytypes : BodyTypeLists]
DefaultConfig ==
  [query |-> FALSE, reqheaders |-> FALSE, respheaders |-> FALSE,
   bodymaxlen |-> DefaultBodyMaxLen, bodytypes |-> DefaultBodyTypes]

\* Content-Type header values a request or a response may carry.
NoHeader == <<>>
JSONCharset == JSON \o <<";", " ", "charset=utf-8">>
PlainPadded == PLAIN \o <<" ", ";", "q=1">>
ReqHeaders == {JSON, JSONCharset, PLAIN}
RespHeaders == {JSONCharset, PlainPadded}

\* slices.Contains
Contains(list, x) == \E i \in 1..Len(list) : list[i] = x

IndexOf(s, tok) ==
  IF \E i \in 1..Len(s) : s[i] = tok
  THEN CHOOSE i \in 1..Len(s) : s[i] = tok /\ \A j \in 1..(i - 1) : s[j] # tok
  ELSE 0

RECURSIVE TrimSpace(_)
TrimSpace(s) ==
  IF s = <<>> THEN s
  ELSE IF Head(s) = " " THEN TrimSpace(Tail(s))
  ELSE IF s[Len(s)] = " " THEN TrimSpace(SubSeq(s, 1, Len(s) - 1))
  ELSE s

getContentType(header) ==
  LET index == IndexOf(header, ";")
  IN  IF index > 0 THEN TrimSpace(SubSeq(header, 1, index - 1)) ELSE header

HasSuffixJson(ct) == ct # <<>> /\ ct[Len(ct)] = "json"

\* ------------------------------------------------------------------- state
VARIABLES
  bufpool,      \* sync.Pool: how many times each buffer sits in the pool
  nalloc,       \* buffers the pool's New has made so far (ids 1..nalloc)
  bufs,         \* each bytes.Buffer: [buf, off]
  req,          \* per request: the request, its wrapped writer, the handler's view
  ignorePaths,  \* the path-exclusion registrations
  reqPath,      \* the path Enabled was last asked about (<<>>: none since a registration)
  enabled       \* what Enabled answered

poolVars == <<bufpool, nalloc, bufs>>
pathVars == <<ignorePaths, reqPath, enabled>>
vars == <<poolVars, req, pathVars>>

\* ------------------------------------------------------------ bytes.Buffer
NewBuffer == [buf |-> <<>>, off |-> 0]
BufLen(b) == Len(b.buf) - b.off
BufBytes(b) == SubSeq(b.buf, b.off + 1, Len(b.buf))
BufReset(b) == [buf |-> <<>>, off |-> 0]
BufWrite(b, p) == [buf |-> b.buf \o p, off |-> b.off]
BufRead(b, k) ==
  IF BufLen(b) = 0
  THEN [b |-> BufReset(b), data |-> <<>>, end |-> "eof"]
  ELSE LET n == Min(k, BufLen(b))
       IN  [b |-> [buf |-> b.buf, off |-> b.off + n],
            data |-> SubSeq(b.buf, b.off + 1, b.off + n), end |-> ""]

\* ----------------------------------------------------------------- context
\* The value under logrespkey: "unset", or "false" once DisableLogRespBody ran.
logRespFromContext(ctx) == [log |-> FALSE, ok |-> ctx # "unset"]
DisableLogRespBody(ctx) == "false"

\* ----------------------------------------------------------------- requests
\* A body stream: the bytes it still yields, then EOF or (err) a read failure.
Stream(d, e) == [kind |-> "orig", data |-> d, err |-> e, buf |-> 0]
NoReqBody == [ok |-> FALSE, data |-> <<>>, buf |-> 0, ct |-> <<>>]
NoRet == [n |-> -1, err |-> FALSE]
\* A response writer is a chain of layers, outermost first.
Base == [kind |-> "base", buf |-> 0]
Unwrapper == [kind |-> "unwrap", buf |-> 0]
newResponseWriter(w, buf) == <<[kind |-> "mirror", buf |-> buf]>> \o w
RawQuery == <<"id=1">>

IdleReq ==
  [pc |-> "idle",
   header |-> NoHeader,        \* r.Header's Content-Type
   body |-> Stream(<<>>, FALSE), \* r.Body
   orig |-> Stream(<<>>, FALSE), \* the body as it arrived (history)
   ctxlog |-> "unset",         \* logrespkey in the context WrapHandler receives
   hctx |-> "unset",           \* logrespkey in the context the handler derives
   respOn |-> FALSE,           \* what logRespBody.Get() returned while wrapping
   reqbody |-> NoReqBody,      \* reqbodykey in the wrapped request's context
   w |-> <<Base>>,             \* the writer handed to the next handler
   under |-> <<>>,             \* bytes the real writer accepted
   respHeader |-> NoHeader,    \* w.Header()'s Content-Type
   ret |-> NoRet,              \* what the handler's last Write returned
   uret |-> NoRet,             \* what the real writer returned to that call
   seen |-> <<>>,              \* bytes the handler read from r.Body
   readEnd |-> "",             \* "eof" or "err" once the handler's read ended
   emitted |-> <<>>,           \* attributes of the latest Collect
   fresh |-> FALSE,            \* Collect has run
   again |-> FALSE,            \* ... and ran again reading the same configuration
   cfg |-> DefaultConfig,      \* the configuration the latest Collect read
   gets |-> <<>>,              \* buffers acquired, with their length when handed out
   exit |-> "",                \* how the handler ended: "return" or "panic"
   puts |-> <<>>,              \* buffers this request put back
   events |-> <<>>]

Note(ev, tag) == IF ev # <<>> /\ ev[Len(ev)] = tag THEN ev ELSE Append(ev, tag)

\* -------------------------------------------------------------- buffer pool
PoolEmpty == \A b \in BufIds : bufpool[b] = 0
\* bufpool.Get(): any pooled buffer, or a new one when the pool holds none.
GetChoices ==
  {b \in BufIds : bufpool[b] > 0}
    \cup (IF PoolEmpty /\ nalloc < Cardinality(BufIds) THEN {nalloc + 1} ELSE {})
getbuffer(b) ==
  IF bufpool[b] > 0
  THEN [pool |-> [bufpool EXCEPT ![b] = @ - 1], nalloc |-> nalloc, bufs |-> bufs]
  ELSE [pool |-> bufpool, nalloc |-> nalloc + 1,
        bufs |-> [bufs EXCEPT ![b] = NewBuffer]]
\* Faulty variant of putbuffer: the buffer goes back without Reset.
putbufferNoReset(st, b) ==
  [pool |-> [st.pool EXCEPT ![b] = @ + 1], bufs |-> st.bufs]
\* putbuffer on a pool state st = [pool, bufs]
putbuffer(st, b) ==
  [pool |-> [st.pool EXCEPT ![b] = @ + 1],
   bufs |-> [st.bufs EXCEPT ![b] = BufReset(@)]]

RECURSIVE PutAll(_, _)
PutAll(st, targets) ==
  IF targets = <<>> THEN st ELSE PutAll(putbuffer(st, Head(targets)), Tail(targets))

\* ------------------------------------------------------------------ wrapping
\* wrapRequestBody captures: logReqBody.Get() and the allow-list test.
capturesRequest(logReqBody, logBodyTypes, header) ==
  logReqBody /\ Contains(logBodyTypes, getContentType(header))

\* Faulty variant of CopyBuffer: a failed copy keeps nothing.
CopyBufferAllOrNothing(b, s) ==
  [b |-> IF s.err THEN b ELSE BufWrite(b, s.data), err |-> s.err]
\* io.CopyBuffer(reqbody.buf, r.Body, ...): everything the stream yields before
\* it ends is appended; the error, if any, is only reported.
CopyBuffer(b, s) == [b |-> BufWrite(b, s.data), err |-> s.err]

\* Faulty variant of replacedBody: r.Body is left as the drained original.
replacedBodyDrained(b) == [kind |-> "orig", data |-> <<>>, err |-> FALSE, buf |-> 0]
\* r.Body = io.NopCloser(reqbody.buf)
replacedBody(b) == [kind |-> "buf", data |-> <<>>, err |-> FALSE, buf |-> b]

\* Faulty variant of wrapsResponse: the context flag is not consulted.
wrapsResponseAlways(logRespBody, ctx) == logRespBody
wrapsResponse(logRespBody, ctx) ==
  /\ logRespBody
  /\ ~(logRespFromContext(ctx).ok /\ ~logRespFromContext(ctx).log)

RECURSIVE getResponseWriter(_)
getResponseWriter(w) ==
  IF w = <<>> THEN 0
  ELSE IF Head(w).kind = "mirror" THEN Head(w).buf
  ELSE IF Head(w).kind = "unwrap" THEN getResponseWriter(Tail(w))
  ELSE 0

\* ------------------------------------------------------------------ Collect
Attr(key, kind, n, val) == [key |-> key, kind |-> kind, n |-> n, val |-> val]

\* Faulty variant of shouldlogbody: a body of exactly the maximum is refused.
shouldlogbodyStrict(cfg, ct, datalen) ==
  (cfg.bodymaxlen <= 0 \/ datalen < cfg.bodymaxlen) /\ Contains(cfg.bodytypes, ct)
shouldlogbody(cfg, ct, datalen) ==
  IF cfg.bodymaxlen > 0 /\ datalen > cfg.bodymaxlen THEN FALSE
  ELSE IF ~Contains(cfg.bodytypes, ct) THEN FALSE
  ELSE TRUE

getbodyattr(data, key, ct) ==
  IF HasSuffixJson(ct) THEN Attr(key, "rawjson", 0, data)
  ELSE Attr(key, "string", 0, data)

\* The attributes Collect(w, r, appendAttr) hands to appendAttr, in order.
CollectAttrs(cfg, w, rq) ==
  LET rw == getResponseWriter(w)
      ct == getContentType(rq.respHeader)
  IN  (IF cfg.query THEN <<Attr("query", "string", 0, RawQuery)>> ELSE <<>>)
      \o (IF cfg.reqheaders THEN <<Attr("reqheaders", "any", 0, rq.header)>> ELSE <<>>)
      \o (IF cfg.respheaders THEN <<Attr("respheaders", "any", 0, rq.respHeader)>> ELSE <<>>)
      \o (IF rq.reqbody.ok
          THEN <<Attr("reqbodylen", "int", Len(rq.reqbody.data), <<>>)>>
               \o (IF shouldlogbody(cfg, rq.reqbody.ct, Len(rq.reqbody.data))
                   THEN <<getbodyattr(rq.reqbody.data, "reqbody", rq.reqbody.ct)>>
                   ELSE <<>>)
          ELSE <<>>)
      \o (IF rw # 0
          THEN <<Attr("respbodylen", "int", BufLen(bufs[rw]), <<>>)>>
               \o (IF shouldlogbody(cfg, ct, BufLen(bufs[rw]))
                   THEN <<getbodyattr(BufBytes(bufs[rw]), "respbody", ct)>>
                   ELSE <<>>)
          ELSE <<>>)

\* The buffers after Collect: rw.buf.Len() and rw.buf.Bytes() only read.
\* Faulty variant of CollectBufs: reading the mirror drains it.
CollectBufsDraining(w) ==
  IF getResponseWriter(w) = 0 THEN bufs
  ELSE [bufs EXCEPT ![getResponseWriter(w)] = BufReset(@)]
CollectBufs(w) == bufs

\* ------------------------------------------------------------------ Release
\* Faulty variant of ReleaseTargets: the mirror is never put back.
ReleaseTargetsRequestOnly(rq) ==
  IF rq.reqbody.ok THEN <<rq.reqbody.buf>> ELSE <<>>
\* The buffers Release(w, r) puts back, in order.
ReleaseTargets(rq) ==
  (IF rq.reqbody.ok THEN <<rq.reqbody.buf>> ELSE <<>>)
    \o (IF getResponseWriter(rq.w) # 0 THEN <<getResponseWriter(rq.w)>> ELSE <<>>)

\* ------------------------------------------------------------ responseWriter
\* Faulty variant of responseWriterWrite: the whole of p is mirrored.
responseWriterWriteAll(b, p, n) == BufWrite(b, p)
\* The mirror after Write(p), the embedded writer having accepted n bytes.
responseWriterWrite(b, p, n) == IF n > 0 THEN BufWrite(b, SubSeq(p, 1, n)) ELSE b
responseWriterWriteString(b, s, n) == IF n > 0 THEN BufWrite(b, SubSeq(s, 1, n)) ELSE b
\* What Write returns, the embedded writer having returned (n, err).
WriteResult(n, err) == [n |-> n, err |-> err]

\* ------------------------------------------------------------------ actions
Bodies == SeqsUpTo(Byte, MaxBody)
Chunks == SeqsUpTo(Byte, MaxResp) \ {<<>>}

\* A request reaches WrapHandler: its Content-Type, its body stream and the
\* logrespkey flag of its context are the inputs.
Arrive(r, hdrs, bodies, errs, ctxs) ==
  /\ req[r].pc = "idle"
  /\ \E h \in hdrs, d \in bodies, e \in errs, c \in ctxs :
       req' = [req EXCEPT ![r] =
                 [IdleReq EXCEPT !.pc = "arrived", !.header = h,
                                 !.body = Stream(d, e), !.orig = Stream(d, e),
                                 !.ctxlog = c, !.hctx = c]]
  /\ UNCHANGED <<poolVars, pathVars>>

wrapRequestBody(r, reqBodyFlags, typeLists) ==
  /\ req[r].pc = "arrived"
  /\ \E logReqBody \in reqBodyFlags, logBodyTypes \in typeLists :
       IF capturesRequest(logReqBody, logBodyTypes, req[r].header)
       THEN \E b \in GetChoices :
              LET got == getbuffer(b)
                  cp == CopyBuffer(got.bufs[b], req[r].body)
              IN  /\ bufpool' = got.pool
                  /\ nalloc' = got.nalloc
                  /\ bufs' = [got.bufs EXCEPT ![b] = cp.b]
                  /\ req' = [req EXCEPT ![r] =
                       [@ EXCEPT !.pc = "wrapping",
                                 !.reqbody = [ok |-> TRUE, data |-> BufBytes(cp.b),
                                              buf |-> b,
                                              ct |-> getContentType(req[r].header)],
                                 !.body = replacedBody(b),
                                 !.gets = Append(@, [buf |-> b,
                                                     len |-> BufLen(got.bufs[b])]),
                                 !.events = Note(@, "capture")]]
       ELSE /\ req' = [req EXCEPT ![r] = [@ EXCEPT !.pc = "wrapping",
                                                   !.events = Note(@, "capture")]]
            /\ UNCHANGED poolVars
  /\ UNCHANGED pathVars

wrapResponseBody(r, respBodyFlags) ==
  /\ req[r].pc = "wrapping"
  /\ \E logRespBody \in respBodyFlags :
       IF wrapsResponse(logRespBody, req[r].ctxlog)
       THEN \E b \in GetChoices :
              LET got == getbuffer(b)
              IN  /\ bufpool' = got.pool
                  /\ nalloc' = got.nalloc
                  /\ bufs' = got.bufs
                  /\ req' = [req EXCEPT ![r] =
                       [@ EXCEPT !.pc = "serving",
                                 !.respOn = logRespBody,
                                 !.w = newResponseWriter(@, b),
                                 !.gets = Append(@, [buf |-> b,
                                                     len |-> BufLen(got.bufs[b])])]]
       ELSE /\ req' = [req EXCEPT ![r] = [@ EXCEPT !.pc = "serving",
                                                   !.respOn = logRespBody]]
            /\ UNCHANGED poolVars
  /\ UNCHANGED pathVars

\* The handler reads up to k bytes of r.Body.
ReadBody(r, ks) ==
  /\ req[r].pc = "serving"
  /\ req[r].readEnd = ""
  /\ \E k \in ks :
       IF req[r].body.kind = "buf"
       THEN LET rd == BufRead(bufs[req[r].body.buf], k)
            IN  /\ bufs' = [bufs EXCEPT ![req[r].body.buf] = rd.b]
                /\ req' = [req EXCEPT ![r] =
                     [@ EXCEPT !.seen = @ \o rd.data, !.readEnd = rd.end,
                               !.events = Note(@, "handler")]]
       ELSE LET s == req[r].body
                n == Min(k, Len(s.data))
            IN  /\ bufs' = bufs
                /\ req' = [req EXCEPT ![r] =
                     [@ EXCEPT !.seen = @ \o SubSeq(s.data, 1, n),
                               !.body = Stream(SubSeq(s.data, n + 1, Len(s.data)), s.err),
                               !.readEnd = IF s.data # <<>> THEN ""
                                            ELSE IF s.err THEN "err" ELSE "eof",
                               !.events = Note(@, "handler")]]
  /\ UNCHANGED <<bufpool, nalloc, pathVars>>

\* The handler sets the response's Content-Type before it writes.
SetRespHeader(r) ==
  /\ req[r].pc = "serving"
  /\ req[r].ret = NoRet
  /\ req[r].respHeader = NoHeader
  /\ \E h \in RespHeaders :
       req' = [req EXCEPT ![r] = [@ EXCEPT !.respHeader = h,
                                           !.events = Note(@, "handler")]]
  /\ UNCHANGED <<poolVars, pathVars>>

\* The handler, before it writes, derives a context with DisableLogRespBody.
HandlerDisable(r) ==
  /\ req[r].pc = "serving"
  /\ req[r].ret = NoRet
  /\ req[r].hctx = "unset"
  /\ req' = [req EXCEPT ![r] = [@ EXCEPT !.hctx = DisableLogRespBody(@),
                                         !.events = Note(@, "handler")]]
  /\ UNCHANGED <<poolVars, pathVars>>

\* The handler calls w.Write(p); the real writer accepts n bytes and returns
\* (n, err).
Write(r, chunks, errs, partial) ==
  /\ req[r].pc = "serving"
  /\ \E p \in chunks, e \in errs :
       /\ Len(req[r].under) + Len(p) <= MaxResp
       /\ \E n \in (IF partial THEN 0..Len(p) ELSE {Len(p)}) :
            LET rw == getResponseWriter(req[r].w)
            IN  /\ bufs' = IF rw # 0
                           THEN [bufs EXCEPT ![rw] = responseWriterWrite(@, p, n)]
                           ELSE bufs
                /\ req' = [req EXCEPT ![r] =
                     [@ EXCEPT !.under = @ \o SubSeq(p, 1, n),
                               !.uret = [n |-> n, err |-> e],
                               !.ret = IF rw # 0 THEN WriteResult(n, e)
                                       ELSE [n |-> n, err |-> e],
                               !.events = Note(@, "handler")]]
  /\ UNCHANGED <<bufpool, nalloc, pathVars>>

\* The handler calls io.WriteString(w, s).
WriteString(r, chunks, errs, partial) ==
  /\ req[r].pc = "serving"
  /\ \E s \in chunks, e \in errs :
       /\ Len(req[r].under) + Len(s) <= MaxResp
       /\ \E n \in (IF partial THEN 0..Len(s) ELSE {Len(s)}) :
            LET rw == getResponseWriter(req[r].w)
            IN  /\ bufs' = IF rw # 0
                           THEN [bufs EXCEPT ![rw] = responseWriterWriteString(@, s, n)]
                           ELSE bufs
                /\ req' = [req EXCEPT ![r] =
                     [@ EXCEPT !.under = @ \o SubSeq(s, 1, n),
                               !.uret = [n |-> n, err |-> e],
                               !.ret = IF rw # 0 THEN WriteResult(n, e)
                                       ELSE [n |-> n, err |-> e],
                               !.events = Note(@, "handler")]]
  /\ UNCHANGED <<bufpool, nalloc, pathVars>>

HandlerReturn(r) ==
  /\ req[r].pc = "serving"
  /\ req' = [req EXCEPT ![r] = [@ EXCEPT !.pc = "returned", !.exit = "return",
                                         !.events = Note(@, "handler")]]
  /\ UNCHANGED <<poolVars, pathVars>>

HandlerPanic(r) ==
  /\ req[r].pc = "serving"
  /\ req' = [req EXCEPT ![r] = [@ EXCEPT !.pc = "panicked", !.exit = "panic",
                                         !.events = Note(@, "handler")]]
  /\ UNCHANGED <<poolVars, pathVars>>

\* The logger middleware, inside next.ServeHTTP, calls Collect(w, r, appendAttr)
\* with the writer it was given, or with its own wrapper around it.
Collect(r, cfgs) ==
  /\ req[r].pc \in {"returned", "panicked"}
  /\ \E cfg \in cfgs, outer \in {<<>>, <<Unwrapper>>} :
       LET w == outer \o req[r].w
       IN  /\ bufs' = CollectBufs(w)
           /\ req' = [req EXCEPT ![r] =
                [@ EXCEPT !.emitted = CollectAttrs(cfg, w, req[r]), !.fresh = TRUE,
                          !.again = req[r].fresh /\ req[r].cfg = cfg,
                          !.cfg = cfg, !.events = Note(@, "collect")]]
  /\ UNCHANGED <<bufpool, nalloc, pathVars>>

\* WrapHandler's deferred Release(w, r).
Release(r) ==
  /\ req[r].pc \in {"returned", "panicked"}
  /\ LET targets == ReleaseTargets(req[r])
         st == PutAll([pool |-> bufpool, bufs |-> bufs], targets)
     IN  /\ bufpool' = st.pool
         /\ bufs' = st.bufs
         /\ req' = [req EXCEPT ![r] = [@ EXCEPT !.pc = "released",
                                               !.puts = @ \o targets,
                                               !.events = Note(@, "release")]]
  /\ UNCHANGED <<nalloc, pathVars>>

\* Release(r) and Recycle(r) in one step: WrapHandler's deferred Release runs
\* and the server takes up the next request.
Finish(r) ==
  /\ req[r].pc \in {"returned", "panicked"}
  /\ LET st == PutAll([pool |-> bufpool, bufs |-> bufs], ReleaseTargets(req[r]))
     IN  /\ bufpool' = st.pool
         /\ bufs' = st.bufs
         /\ req' = [req EXCEPT ![r] = IdleReq]
  /\ UNCHANGED <<nalloc, pathVars>>

\* WrapHandler has returned; the server takes up the next request.
Recycle(r) ==
  /\ req[r].pc = "released"
  /\ req' = [req EXCEPT ![r] = IdleReq]
  /\ UNCHANGED <<poolVars, pathVars>>

\* ------------------------------------------------------------ path exclusion
Root == <<"/">>
Path1 == <<"/", "path1">>
Path2 == <<"/", "path2">>
Path2Slash == <<"/", "path2", "/">>
Path1Path2 == <<"/", "path1", "/", "path2">>
Path2Path1 == <<"/", "path2", "/", "path1">>
Registrable == {<<>>, Root, Path1, Path2Slash}
RequestPaths == {Root, Path1, Path2, Path1Path2, Path2Path1}

\* Enabled(req), on req.URL.Path
Enabled(path) == path # Root

AppendIgnorePath ==
  /\ Len(ignorePaths) < MaxPaths
  /\ \E p \in Registrable : ignorePaths' = Append(ignorePaths, p)
  /\ reqPath' = <<>>
  /\ enabled' = TRUE
  /\ UNCHANGED <<poolVars, req>>

\* The logger middleware asks Enabled(req) for a request's path.
CheckEnabled ==
  /\ \E p \in RequestPaths :
       /\ reqPath' = p
       /\ enabled' = Enabled(p)
  /\ UNCHANGED <<poolVars, req, ignorePaths>>

\* ------------------------------------------------------------ specifications
Init ==
  /\ bufpool = [b \in BufIds |-> 0]
  /\ nalloc = 0
  /\ bufs = [b \in BufIds |-> NewBuffer]
  /\ req = [r \in Reqs |-> IdleReq]
  /\ ignorePaths = <<>>
  /\ reqPath = <<>>
  /\ enabled = TRUE

CollectConfigs ==
  {c \in Configs : c.query = c.reqheaders /\ c.query = c.respheaders}
SmallBodies == SeqsUpTo({"a"}, MaxBody)
SmallChunks == SeqsUpTo({"a"}, MaxResp) \ {<<>>}

\* One request; the handler writes its response in every way, the real writer
\* accepting any part of every write.
Next ==
  \E r \in MainReqs :
    \/ Arrive(r, {JSON}, {<<"a">>}, {FALSE}, {"unset", "false"})
    \/ wrapRequestBody(r, BOOLEAN, {DefaultBodyTypes})
    \/ wrapResponseBody(r, BOOLEAN)
    \/ SetRespHeader(r)
    \/ HandlerDisable(r)
    \/ Write(r, Chunks, BOOLEAN, TRUE)
    \/ WriteString(r, Chunks, BOOLEAN, TRUE)
    \/ HandlerReturn(r)
    \/ HandlerPanic(r)
    \/ Collect(r, {DefaultConfig})
    \/ Release(r)
    \/ Recycle(r)

Spec == Init /\ [][Next]_vars

\* One request up to its collection; every configuration Collect may read,
\* bodies and responses of every length around the limit.
NextCollect ==
  \E r \in MainReqs :
    \/ Arrive(r, {JSON, FORM}, SmallBodies, {FALSE}, {"unset"})
    \/ wrapRequestBody(r, BOOLEAN, BodyTypeLists)
    \/ wrapResponseBody(r, BOOLEAN)
    \/ ReadBody(r, {MaxBody})
    \/ SetRespHeader(r)
    \/ Write(r, SmallChunks, {FALSE}, FALSE)
    \/ HandlerReturn(r)
    \/ Collect(r, CollectConfigs)

SpecCollect == Init /\ [][NextCollect]_vars

\* One request after another; every body, read by the handler in every way.
NextBody ==
  \E r \in MainReqs :
    \/ Arrive(r, ReqHeaders, Bodies, BOOLEAN, {"unset"})
    \/ wrapRequestBody(r, BOOLEAN, BodyTypeLists)
    \/ wrapResponseBody(r, BOOLEAN)
    \/ ReadBody(r, 1..MaxBody)
    \/ HandlerReturn(r)
    \/ HandlerPanic(r)
    \/ Collect(r, {DefaultConfig})
    \/ Release(r)
    \/ Recycle(r)

SpecBody == Init /\ [][NextBody]_vars

\* NumReqs requests in flight at once over the one pool, each capturing its
\* body and, when response logging is on, mirroring its response.
NextPool ==
  \E r \in Reqs :
    \/ Arrive(r, {JSON}, {<<"a">>}, {FALSE}, {"unset"})
    \/ wrapRequestBody(r, {TRUE}, {DefaultBodyTypes})
    \/ wrapResponseBody(r, BOOLEAN)
    \/ Write(r, {[i \in 1..MaxResp |-> "b"]}, {FALSE}, FALSE)
    \/ HandlerReturn(r)
    \/ Finish(r)

SpecPool == Init /\ [][NextPool]_vars

\* The path gate alone.
NextPaths == AppendIgnorePath \/ CheckEnabled

SpecPaths == Init /\ [][NextPaths]_vars

\* ====================================================================== claims
InFlight(r) == req[r].pc \in {"wrapping", "serving", "returned", "panicked"}
Serving(r) == req[r].pc \in {"serving", "returned", "panicked"}
Mirror(r) == getResponseWriter(req[r].w)
HasAttr(em, key) == \E i \in 1..Len(em) : em[i].key = key
IsPrefix(s, t) == Len(s) <= Len(t) /\ SubSeq(t, 1, Len(s)) = s
\* What r.Body still yields to the handler.
Remaining(r) ==
  IF req[r].body.kind = "buf" THEN BufBytes(bufs[req[r].body.buf]) ELSE req[r].body.data
Held(r) == {req[r].gets[i].buf : i \in 1..Len(req[r].gets)}

\* C1: while a request is served through the wrapper, the mirror buffer holds
\* exactly the bytes the real writer accepted, in order (the concatenation of
\* the accepted prefixes p[:n]), and every Write / WriteString returned the
\* real writer's (n, err) unchanged.
C1_MirrorEqualsDelivered ==
  \A r \in Reqs :
    (Serving(r) /\ Mirror(r) # 0) =>
      /\ BufBytes(bufs[Mirror(r)]) = req[r].under
      /\ BufLen(bufs[Mirror(r)]) = Len(req[r].under)
      /\ req[r].ret = req[r].uret

\* A write the real writer rejected whole (n = 0, err) after it had accepted
\* bytes of an earlier one.
C1_Witness ==
  \E r \in Reqs :
    /\ Serving(r) /\ Mirror(r) # 0
    /\ req[r].under # <<>>
    /\ req[r].ret = [n |-> 0, err |-> TRUE]

\* C2: for a body that reads without failure, what the handler has read plus
\* what r.Body still yields is the original body, byte for byte, whether the
\* body was captured or not; a read that ended ended at EOF with the whole
\* body seen; what was captured for Collect is that same content.
C2_BodyReplayed ==
  \A r \in Reqs :
    (Serving(r) /\ ~req[r].orig.err) =>
      /\ req[r].seen \o Remaining(r) = req[r].orig.data
      /\ req[r].readEnd # "" =>
           (req[r].readEnd = "eof" /\ req[r].seen = req[r].orig.data)
      /\ req[r].reqbody.ok => req[r].reqbody.data = req[r].orig.data
      /\ req[r].fresh =>
           \A i \in 1..Len(req[r].emitted) :
             /\ req[r].emitted[i].key = "reqbody" =>
                  req[r].emitted[i].val = req[r].orig.data
             /\ req[r].emitted[i].key = "reqbodylen" =>
                  req[r].emitted[i].n = Len(req[r].orig.data)

\* A captured body of MaxBody different bytes, read to EOF in two reads and
\* collected.
C2_Witness ==
  \E r \in Reqs :
    /\ req[r].pc = "returned" /\ req[r].reqbody.ok /\ ~req[r].orig.err
    /\ req[r].orig.data = <<"a", "b">>
    /\ req[r].readEnd = "eof" /\ req[r].seen = <<"a", "b">>
    /\ HasAttr(req[r].emitted, "reqbody")

\* C3 as stated: a request marked with DisableLogRespBody before its first
\* response byte, by whoever (the context WrapHandler received, or one the
\* handler derived after wrapping), gets no byte mirrored and no respbody
\* attribute.
C3_AsStated ==
  \A r \in Reqs :
    (Serving(r) /\ req[r].respOn
       /\ (req[r].ctxlog = "false" \/ req[r].hctx = "false")) =>
      /\ Mirror(r) = 0 \/ BufLen(bufs[Mirror(r)]) = 0
      /\ ~HasAttr(req[r].emitted, "respbody")

\* C3 amended: a request whose context is marked with DisableLogRespBody when
\* it reaches WrapReqRespBody is handed the real writer itself: no mirror
\* buffer is acquired, Collect emits neither respbodylen nor respbody, and the
\* handler's writes and their results are the real writer's.
C3_DisabledBeforeWrap ==
  \A r \in Reqs :
    (Serving(r) /\ req[r].ctxlog = "false") =>
      /\ req[r].w = <<Base>>
      /\ Mirror(r) = 0
      /\ Len(req[r].gets) = (IF req[r].reqbody.ok THEN 1 ELSE 0)
      /\ ~HasAttr(req[r].emitted, "respbodylen")
      /\ ~HasAttr(req[r].emitted, "respbody")
      /\ req[r].ret = req[r].uret

\* Response logging on, the context marked on arrival, bytes written, Collect run.
C3_Witness ==
  \E r \in Reqs :
    /\ req[r].pc = "returned" /\ req[r].respOn /\ req[r].ctxlog = "false"
    /\ req[r].under # <<>> /\ req[r].fresh

Rank(tag) ==
  CASE tag = "capture" -> 1
    [] tag = "handler" -> 2
    [] tag = "collect" -> 3
    [] tag = "release" -> 4

\* C4: the buffers a request acquired while wrapping stay out of the pool and
\* un-released while the handler runs and Collect reads; after WrapHandler's
\* deferred Release, on return and on panic alike, each of them has been put
\* back exactly once; capture, handler, collection and release happen in that
\* order.
C4_ReleasedOnceInOrder ==
  \A r \in Reqs :
    /\ InFlight(r) =>
         /\ req[r].puts = <<>>
         /\ \A b \in Held(r) : bufpool[b] = 0
    /\ req[r].pc = "released" =>
         /\ Len(req[r].puts) = Len(req[r].gets)
         /\ \A b \in Held(r) :
              /\ Cardinality({j \in 1..Len(req[r].puts) : req[r].puts[j] = b}) = 1
              /\ bufpool[b] = 1
         /\ req[r].events[Len(req[r].events)] = "release"
    /\ \A i, j \in 1..Len(req[r].events) :
         i < j => Rank(req[r].events[i]) < Rank(req[r].events[j])

\* A handler that panicked with both buffers acquired; Collect ran, then the
\* deferred Release.
C4_Witness ==
  \E r \in Reqs :
    /\ req[r].pc = "released" /\ req[r].exit = "panic"
    /\ Len(req[r].gets) = 2
    /\ req[r].events = <<"capture", "handler", "collect", "release">>

\* The allow-list test of the claim: exact, "prefix/*" or "*/suffix".
isAllowedClaim(mime, list) ==
  \E i \in 1..Len(list) :
    \/ list[i] = mime
    \/ /\ Len(mime) = Len(list[i]) /\ Len(mime) > 1
       /\ \/ list[i][Len(mime)] = "*" /\ list[i][1] = mime[1]
          \/ list[i][1] = "*" /\ list[i][Len(mime)] = mime[Len(mime)]

WithinLimit(cfg, n) == cfg.bodymaxlen <= 0 \/ n <= cfg.bodymaxlen

\* C5: the allow-list test accepts a type iff an entry equals it or matches it
\* as "prefix/*" or "*/suffix": a mirrored response within the size limit has
\* its respbody attribute emitted iff its type passes that test.
C5_WildcardAllowList ==
  \A r \in Reqs :
    (req[r].pc = "returned" /\ req[r].fresh /\ Mirror(r) # 0
       /\ WithinLimit(req[r].cfg, BufLen(bufs[Mirror(r)]))) =>
      (HasAttr(req[r].emitted, "respbody")
         <=> isAllowedClaim(getContentType(req[r].respHeader), req[r].cfg.bodytypes))

HasPrefix(s, prefix) == IsPrefix(prefix, s)
\* Exclusion as the claim states it; registering "" or "/" adds nothing to it.
IsExcludedClaim(path, regs) ==
  \/ path = Root
  \/ \E i \in 1..Len(regs) :
       /\ regs[i] \notin {<<>>, Root}
       /\ IF regs[i][Len(regs[i])] = "/" THEN HasPrefix(path, regs[i])
          ELSE path = regs[i]

\* C6: Enabled(request) is false exactly for the excluded paths: "/", a path
\* registered without a trailing slash, and the subtree of a path registered
\* with one.
C6_PathExclusion ==
  reqPath # <<>> => (enabled = ~IsExcludedClaim(reqPath, ignorePaths))

C8_CollectIsPureRead ==
  [][\A r \in Reqs :
       (req[r].pc = "returned" /\ req'[r].pc = "returned" /\ req'[r].fresh) =>
         /\ bufs' = bufs
         /\ bufpool' = bufpool
         /\ req'[r].reqbody = req[r].reqbody
         /\ req'[r].w = req[r].w
         /\ req'[r].ctxlog = req[r].ctxlog /\ req'[r].hctx = req[r].hctx
         /\ (req[r].fresh /\ req'[r].cfg = req[r].cfg) =>
              req'[r].emitted = req[r].emitted]_vars

\* Collect has run twice on the same configuration, with both bodies emitted.
C8_Witness ==
  \E r \in Reqs :
    /\ req[r].pc = "returned" /\ req[r].again
    /\ HasAttr(req[r].emitted, "reqbody")
    /\ HasAttr(req[r].emitted, "respbody")
    /\ BufLen(bufs[Mirror(r)]) > 0

\* C9: every buffer in the pool is empty and sits there once; every buffer
\* getbuffer handed out was empty; a buffer a request holds is neither in the
\* pool nor held by another request, and holds that request's bytes only.
C9_PoolIsolation ==
  /\ \A b \in BufIds :
       /\ bufpool[b] <= 1
       /\ bufpool[b] > 0 => (BufLen(bufs[b]) = 0 /\ BufBytes(bufs[b]) = <<>>)
  /\ \A r \in Reqs :
       /\ \A i \in 1..Len(req[r].gets) : req[r].gets[i].len = 0
       /\ InFlight(r) =>
            /\ \A b \in Held(r) : bufpool[b] = 0
            /\ \A q \in Reqs \ {r} : InFlight(q) => Held(q) \cap Held(r) = {}
            /\ req[r].reqbody.ok =>
                 req[r].seen \o Remaining(r) = req[r].orig.data
       /\ (Serving(r) /\ Mirror(r) # 0) =>
            BufBytes(bufs[Mirror(r)]) = req[r].under

\* Two requests in flight; one of them mirrors into a buffer the pool handed
\* out again (New numbers buffers upwards, so a mirror older than the body
\* buffer came out of the pool), and has bytes in both its buffers.
C9_Witness ==
  \E r \in Reqs : \E q \in Reqs \ {r} :
    /\ Serving(r) /\ InFlight(q) /\ Held(q) # {}
    /\ req[r].reqbody.ok /\ Mirror(r) # 0
    /\ Mirror(r) < req[r].reqbody.buf
    /\ req[r].under # <<>>

\* C10: when the body's read fails after k bytes and the body is captured, the
\* captured bytes and what the handler reads are exactly those k bytes, the
\* handler runs and sees EOF, never the failure, and the buffer stays attached:
\* held until Release, which puts it back.
C10_ReadFailureTolerated ==
  \A r \in Reqs :
    (req[r].orig.err /\ req[r].reqbody.ok) =>
      /\ req[r].reqbody.data = req[r].orig.data
      /\ req[r].readEnd # "err"
      /\ req[r].reqbody.buf \in Held(r)
      /\ InFlight(r) =>
           /\ req[r].seen \o Remaining(r) = req[r].orig.data
           /\ req[r].readEnd = "eof" => req[r].seen = req[r].orig.data
           /\ bufpool[req[r].reqbody.buf] = 0
      /\ req[r].pc = "released" =>
           \E j \in 1..Len(req[r].puts) : req[r].puts[j] = req[r].reqbody.buf

\* A read that failed after one byte; the handler read that byte, saw EOF and
\* returned, and the buffer went back to the pool.
C10_Witness ==
  \E r \in Reqs :
    /\ req[r].pc = "released" /\ req[r].exit = "return"
    /\ req[r].orig.err /\ req[r].reqbody.ok
    /\ Len(req[r].orig.data) = 1
    /\ req[r].seen = req[r].orig.data /\ req[r].readEnd = "eof"
    /\ req[r].puts # <<>>

====
